---- MODULE Spec2Model ----
(***************************************************************************)
(* Hamiltonian thermodynamic integration (hti.py): the lambda schedule     *)
(* planner (make_tasks, _make_tasks), the quadrature post-processing       *)
(* (post_tasks, _post_tasks) and the adaptive refinement (refine_task).    *)
(*                                                                         *)
(* Numbers.  Python floats are modelled as exact rationals <<n, d>> in     *)
(* lowest terms with d > 0, so equality of values is equality of pairs.    *)
(* A statistical error e >= 0 is carried by its square e^2 (fields and     *)
(* operators ending in _sq): np.sqrt(np.square(a) + np.square(b)) is then  *)
(* the sum of the two squares, and e / x with x > 0 is e^2 / x^2.          *)
(*                                                                         *)
(* Files.  A job is a tree of directories; fs maps a path (a sequence of   *)
(* names) to the directory's content.  Task directory task.%06d of a stage *)
(* is element idx + 1 of the stage's `tasks`.                              *)
(***************************************************************************)
EXTENDS Integers, Sequences, FiniteSets, TLC

VARIABLES jdata, fs, cwd, ret, sample

vars == <<jdata, fs, cwd, ret, sample>>

----------------------------------------------------------------------------
(* Bounds of the model *)

\* lambda values of the configured schedules are the points i / GridDen
GridDen == 2
\* longest configured schedule
MaxLen == 3
\* largest per-interval count compute_nrefine returns in the model
MaxNRefine == 2
\* the most lines of a log.lammps
MaxLogLines == 4

----------------------------------------------------------------------------
(* Exact rational arithmetic *)

Abs(x) == IF x < 0 THEN -x ELSE x

RECURSIVE GCD(_, _)
GCD(a, b) == IF b = 0 THEN a ELSE GCD(b, a % b)

Rat(n, d) ==
  LET s == IF d < 0 THEN -1 ELSE 1
      g == GCD(Abs(n), Abs(d))
  IN  <<(s * n) \div g, (s * d) \div g>>

Int2Rat(n) == <<n, 1>>
Zero == <<0, 1>>
One == <<1, 1>>

RatAdd(a, b) == Rat(a[1] * b[2] + b[1] * a[2], a[2] * b[2])
RatNeg(a) == <<-a[1], a[2]>>
RatSub(a, b) == RatAdd(a, RatNeg(b))
RatMul(a, b) == Rat(a[1] * b[1], a[2] * b[2])
RatDiv(a, b) == Rat(a[1] * b[2], a[2] * b[1])
RatLt(a, b) == a[1] * b[2] < b[1] * a[2]
RatSq(a) == RatMul(a, a)

StrictlyIncreasing(s) == \A i \in 1..(Len(s) - 1) : RatLt(s[i], s[i + 1])
NoDuplicate(s) == \A i, j \in 1..Len(s) : i # j => s[i] # s[j]

RECURSIVE SumSeq(_)
SumSeq(s) == IF s = <<>> THEN 0 ELSE Head(s) + SumSeq(Tail(s))

----------------------------------------------------------------------------
(* Files, directories, dictionaries *)

NoFile == [exists |-> FALSE]
File(c) == [exists |-> TRUE, content |-> c]

NoDir == [exists |-> FALSE]

\* the directory task.endpnt of a stage: absent, or made with or without its
\* log.lammps
NoEndPnt == [exists |-> FALSE]
EndPnt(log) == [exists |-> TRUE, log |-> log]

\* d[k] = v of a Python dict (a function whose DOMAIN is the set of keys)
DictSet(d, k, v) == [x \in (DOMAIN d) \cup {k} |-> IF x = k THEN v ELSE d[x]]

JobNames == {"job", "refined"}
SubNames == {"00.deep_on", "01.spring_off", "00.lj_on", "01.deep_on", "02.spring_off"}
Paths == {<<j>> : j \in JobNames} \cup {<<"job", s>> : s \in SubNames}

isdir(f, p) == p \in Paths /\ f[p].exists

\* os.path.join(iter_name, sub) for a job directory
SubPath(iter_name, sub) == <<iter_name, sub>>

----------------------------------------------------------------------------
(* make_tasks / _make_tasks: the schedule planner *)

Switches == {"one-step", "two-step", "three-step"}
Steps == {"both", "deep_on", "spring_off", "lj_on"}

\* parse_seq on an explicit numeric list: the values, as a new array
parse_seq(in_s) == in_s

\* a faulty variant: every stage of a multi-stage protocol reads the deep_on schedule
LambdaKeyDeepOnly(switch, step) ==
  IF switch = "one-step" THEN "lambda" ELSE "lambda_deep_on"

\* the configuration key _make_tasks reads the schedule from
LambdaKey(switch, step) ==
  IF switch = "one-step" THEN "lambda"
  ELSE IF step = "deep_on" THEN "lambda_deep_on"
  ELSE IF step = "spring_off" THEN "lambda_spring_off"
  ELSE IF step = "lj_on" THEN "lambda_lj_on"
  ELSE "unknown step"

\* a faulty variant: the upper end point is nudged whenever the lower one is
NudgeBothOnFirst(all_lambda, protect_eps) ==
  LET n == Len(all_lambda)
  IN  IF all_lambda[1] = Zero
      THEN [[all_lambda EXCEPT ![1] = RatAdd(@, protect_eps)]
              EXCEPT ![n] = RatSub(@, protect_eps)]
      ELSE all_lambda

\* the end point protection of _make_tasks, in the order of the code
Nudge(all_lambda, protect_eps) ==
  LET n == Len(all_lambda)
      l1 == IF all_lambda[1] = Zero
            THEN [all_lambda EXCEPT ![1] = RatAdd(@, protect_eps)]
            ELSE all_lambda
  IN  IF l1[n] = One
      THEN [l1 EXCEPT ![n] = RatSub(@, protect_eps)]
      ELSE l1

\* a freshly created task directory: in.lammps and lambda.out, no output yet
NewTask(ll) == [lambda_out |-> ll, log |-> NoFile, data |-> NoFile, from_dir |-> NoFile]

\* a faulty variant: a protocol and kind already recorded are kept
RecordKindKeepsOld(jd, ref, switch, step) ==
  LET j1 == DictSet(jd, "reference", ref)
      j2 == IF "switch" \in DOMAIN j1 THEN j1 ELSE DictSet(j1, "switch", switch)
  IN  IF "step" \in DOMAIN j2 THEN j2 ELSE DictSet(j2, "step", step)

\* lines 436-438: the reference, protocol and kind recorded in the stage's
\* configuration
RecordKind(jd, ref, switch, step) ==
  DictSet(DictSet(DictSet(jd, "reference", ref), "switch", switch), "step", step)

\* _make_tasks(iter_name, jdata, ref, switch, step): st is the program state
\* [fs, jdata, cwd, status] it runs in; path is iter_name resolved against cwd
_make_tasks(st, path, ref, switch, step) ==
  IF st.status # "ok" THEN st
  ELSE IF switch \in {"two-step", "three-step"} /\ step \notin {"deep_on", "spring_off", "lj_on"}
  THEN [st EXCEPT !.status = "RuntimeError"]
  ELSE IF LambdaKey(switch, step) \notin DOMAIN st.jdata
  THEN [st EXCEPT !.status = "KeyError"]
  ELSE
    LET all_lambda == Nudge(parse_seq(st.jdata[LambdaKey(switch, step)]),
                            st.jdata["protect_eps"])
        jd == RecordKind(st.jdata, ref, switch, step)
        dir == [exists |-> TRUE,
                in_json |-> File(jd),
                tasks |-> [idx \in 1..Len(all_lambda) |-> NewTask(all_lambda[idx])],
                hti_out |-> NoFile,
                endpnt |-> NoEndPnt]
    IN  [st EXCEPT !.fs = [st.fs EXCEPT ![path] = dir], !.jdata = jd]

\* the directory of a multi-stage job: in.json, conf.lmp, graph.pb, no task
JobDir(jd) ==
  [exists |-> TRUE, in_json |-> File(jd), tasks |-> <<>>, hti_out |-> NoFile,
   endpnt |-> NoEndPnt]

\* make_tasks(iter_name, jdata, ref, switch) run in state st0
make_tasks(st0, iter_name, ref, switch) ==
  LET st == [st0 EXCEPT !.status = "ok"]
  IN
  IF switch = "one-step"
  THEN _make_tasks(st, <<iter_name>>, ref, "one-step", "both")
  ELSE IF switch \in {"two-step", "three-step"}
  THEN \* create_path(iter_name), in.json, os.chdir(iter_name)
       LET s1 == [st EXCEPT !.fs = [st.fs EXCEPT ![<<iter_name>>] = JobDir(st.jdata)],
                            !.cwd = iter_name]
           s2 == IF switch = "two-step"
                 THEN _make_tasks(
                        _make_tasks(s1, SubPath(iter_name, "00.deep_on"), ref, switch, "deep_on"),
                        SubPath(iter_name, "01.spring_off"), ref, switch, "spring_off")
                 ELSE _make_tasks(
                        _make_tasks(
                          _make_tasks(s1, SubPath(iter_name, "00.lj_on"), ref, switch, "lj_on"),
                          SubPath(iter_name, "01.deep_on"), ref, switch, "deep_on"),
                        SubPath(iter_name, "02.spring_off"), ref, switch, "spring_off")
       IN  \* os.chdir(cwd) is reached only when no stage raised
           IF s2.status = "ok" THEN [s2 EXCEPT !.cwd = st.cwd] ELSE s2
  ELSE [st EXCEPT !.status = "RuntimeError"]

----------------------------------------------------------------------------
(* The simulations (external): a task's log.lammps appears *)

\* what the reduction of one task's log gives, already normalised by natoms:
\* sa, se^2, da, de^2 of _post_tasks and pv, pv_err^2 of _compute_thermo
Observables ==
  << [ed |-> 2, ed_err_sq |-> 1, es |-> 3, es_err_sq |-> 4, pv |-> 1, pv_err_sq |-> 4],
     [ed |-> -1, ed_err_sq |-> 0, es |-> 1, es_err_sq |-> 1, pv |-> -2, pv_err_sq |-> 1] >>

\* the runs the simulations may take: which of the observables the task of
\* index i produces
Samples == {0, 1}
ObsOf(smp, i) == Observables[((i + smp) % 2) + 1]

\* what the reduction of the log of the end-point simulation gives
EndPntObs ==
  [ed |-> 0, ed_err_sq |-> 0, es |-> 0, es_err_sq |-> 0, pv |-> 5, pv_err_sq |-> 9]

HasOutput(task) == task.log.exists
StageComplete(f, p) == \A i \in 1..Len(f[p].tasks) : HasOutput(f[p].tasks[i])

----------------------------------------------------------------------------
(* _post_tasks: integrand per stage kind, hti.out, integration *)

\* the (switch, step) pairs _post_tasks has an integrand for
KindKnown(switch, step) ==
  \/ switch \in {"one-step", "two-step"} /\ step \in {"both", "deep_on", "spring_off"}
  \/ switch = "three-step" /\ step \in {"lj_on", "deep_on", "spring_off"}

\* The integrands below are written over the numerator n and denominator d of
\* lambda = n / d, so that each is one fraction:
\*   Ed / lambda = Ed * d / n,   Es / (1 - lambda) = Es * d / (d - n)

\* a faulty variant: deep_on divides by lambda in the three-step protocol too
dU_deep_on_scaled(switch, step, ll, o) ==
  LET n == ll[1]
      d == ll[2]
  IN  IF switch \in {"one-step", "two-step"}
      THEN IF step = "both" THEN Rat(o.ed * d * (d - n) - o.es * d * n, n * (d - n))
           ELSE IF step = "deep_on" THEN Rat(o.ed * d, n)
           ELSE Rat(-(o.es * d), d - n)
      ELSE IF step = "lj_on" THEN <<o.ed, 1>>
           ELSE IF step = "deep_on" THEN Rat(o.ed * d, n)
           ELSE Rat(-(o.es * d) + o.ed * (d - n), d - n)

\* de of _post_tasks (lines 714-735) for one task: lambda ll, reduced energies o
dU(switch, step, ll, o) ==
  LET n == ll[1]
      d == ll[2]
  IN  IF switch \in {"one-step", "two-step"}
      THEN IF step = "both" THEN Rat(o.ed * d * (d - n) - o.es * d * n, n * (d - n))
           ELSE IF step = "deep_on" THEN Rat(o.ed * d, n)
           ELSE Rat(-(o.es * d), d - n)
      ELSE IF step \in {"lj_on", "deep_on"} THEN <<o.ed, 1>>
           ELSE Rat(-(o.es * d) + o.ed * (d - n), d - n)

\* all_err of _post_tasks (lines 714-735) for one task, squared
dU_err_sq(switch, step, ll, o) ==
  LET n == ll[1]
      d == ll[2]
  IN  IF switch \in {"one-step", "two-step"}
      THEN IF step = "both"
           THEN Rat(o.ed_err_sq * d * d * (d - n) * (d - n) + o.es_err_sq * d * d * n * n,
                    n * n * (d - n) * (d - n))
           ELSE IF step = "deep_on" THEN Rat(o.ed_err_sq * d * d, n * n)
           ELSE Rat(o.es_err_sq * d * d, (d - n) * (d - n))
      ELSE IF step \in {"lj_on", "deep_on"} THEN <<o.ed_err_sq, 1>>
           ELSE Rat(o.es_err_sq * d * d + o.ed_err_sq * (d - n) * (d - n),
                    (d - n) * (d - n))

\* one row of hti.out, its columns lmbda, dU and dU_err (squared); the
\* columns Ud Us Ud_err Us_err are only printed and are left out
HtiRow(switch, step, ll, o) ==
  [lmbda |-> ll,
   dU |-> dU(switch, step, ll, o),
   dU_err_sq |-> dU_err_sq(switch, step, ll, o)]

\* the last cumulative entries integrate_range may return: integral,
\* systematic error, squared statistical error
IntegrateOutcomes ==
  { [i |-> 3, i_e |-> 1, s_e_sq |-> 9], [i |-> -2, i_e |-> 2, s_e_sq |-> 16] }

\* integrate_range(xx, yy, ye, scheme): the results it may return, each with
\* the lambda its cumulative arrays end at.  The trapezoidal rule covers every
\* point; the composite rule may stop short of the last ones.
integrate_range(xx, scheme) ==
  LET n == Len(xx)
      ends == IF scheme = "t" THEN {n} ELSE {e \in {n - 2, n - 1, n} : e >= 1}
  IN  { [new_lambda_last |-> xx[e], i |-> o.i, i_e |-> o.i_e, s_e_sq |-> o.s_e_sq] :
          e \in ends, o \in IntegrateOutcomes }

\* a stage result when no tail interval was integrated
NoTail == [used |-> FALSE]

\* a faulty variant: the statistical error of the tail interval is dropped
TailResultNoNorm(c, c1) ==
  [diff_e |-> c.i + c1.i, err_sq |-> c.s_e_sq, sys_err |-> c.i_e + c1.i_e]

\* lines 758-760: the cumulative result c and the two-point result c1
TailResult(c, c1) ==
  [diff_e |-> c.i + c1.i,
   err_sq |-> c.s_e_sq + c1.s_e_sq,
   sys_err |-> c.i_e + c1.i_e]

\* lines 764-766
LastResult(c) == [diff_e |-> c.i, err_sq |-> c.s_e_sq, sys_err |-> c.i_e]

\* a faulty variant: a cumulative result that stops anywhere is finished with the tail
EndsAtOther_never(new_lambda_last, all_lambda) == FALSE

\* line 755-761: the cumulative result ends at neither of the last two lambdas
EndsAtOther(new_lambda_last, all_lambda) ==
  /\ new_lambda_last # all_lambda[Len(all_lambda)]
  /\ new_lambda_last # all_lambda[Len(all_lambda) - 1]

\* np.savetxt(task/data) for the tasks 1..m of a stage
WriteData(tasks, m) ==
  [i \in 1..Len(tasks) |->
     IF i <= m THEN [tasks[i] EXCEPT !.data = File(tasks[i].log.content)] ELSE tasks[i]]

\* index of the first task without log.lammps, 0 when every task has one
FirstMissing(tasks) ==
  IF \A i \in 1..Len(tasks) : HasOutput(tasks[i]) THEN 0
  ELSE CHOOSE i \in 1..Len(tasks) :
         /\ ~HasOutput(tasks[i])
         /\ \A j \in 1..(i - 1) : HasOutput(tasks[j])

\* what a failed or not yet made call returns
NoResult == [none |-> TRUE]

\* a faulty variant: the pattern 'task.*', which task.endpnt matches and
\* sorts after the numbered tasks, read at the last lambda
GlobAll(dir) ==
  IF dir.endpnt.exists
  THEN Append(dir.tasks, [lambda_out |-> dir.tasks[Len(dir.tasks)].lambda_out,
                          log |-> dir.endpnt.log, data |-> NoFile, from_dir |-> NoFile])
  ELSE dir.tasks

\* glob.glob(os.path.join(iter_name, 'task.[0-9]*')), sorted: the numbered
\* task directories in index order
GlobTasks(dir) == dir.tasks

\* _compute_thermo(fname, ...): the entries of thermo_info the read-out
\* uses, from the reduced log of one simulation
_compute_thermo(o) == [pv |-> o.pv, pv_err_sq |-> o.pv_err_sq]

\* lines 709-783 of _post_tasks, when every task's log was read: the
\* integrand and hti.out, the integration, the thermo_info
_post_tasks_integrate(f, p, tasks, switch, step, c, c1) ==
  LET n == Len(tasks)
      f1 == [f EXCEPT ![p].tasks = WriteData(tasks, n)]
      all_lambda == [i \in 1..n |-> tasks[i].lambda_out]
      rows == [i \in 1..n |-> HtiRow(switch, step, all_lambda[i], tasks[i].log.content)]
      f2 == [f1 EXCEPT ![p].hti_out = File(rows)]
      path_endpnt == f[p].endpnt
      \* lines 771-781, evaluated only when its log is there
      thermo_info == IF path_endpnt.exists
                     THEN _compute_thermo(path_endpnt.log.content)
                     ELSE _compute_thermo(tasks[n].log.content)
  IN
  IF ~KindKnown(switch, step)
  THEN [fs |-> f1, status |-> "RuntimeError", res |-> NoResult]
  ELSE IF c.new_lambda_last # all_lambda[n] /\ EndsAtOther(c.new_lambda_last, all_lambda)
  THEN [fs |-> f2, status |-> "RuntimeError", res |-> NoResult]
  ELSE IF path_endpnt.exists /\ ~path_endpnt.log.exists
  THEN \* get_thermo on the end point's log, after hti.out was written
       [fs |-> f2, status |-> "FileNotFoundError", res |-> NoResult]
  ELSE IF c.new_lambda_last = all_lambda[n]
  THEN [fs |-> f2, status |-> "ok",
        res |-> [val |-> LastResult(c), tail |-> NoTail, thermo |-> thermo_info]]
  ELSE [fs |-> f2, status |-> "ok",
        res |-> [val |-> TailResult(c, c1),
                 tail |-> [used |-> TRUE, scheme |-> "t",
                           xx |-> SubSeq(all_lambda, n - 1, n), c1 |-> c1],
                 thermo |-> thermo_info]]

\* a faulty variant: the rows read so far are written to hti.out when a log
\* is missing
_post_tasks_partial(f, p, scheme, switch, step, c, c1) ==
  LET tasks == GlobTasks(f[p])
      m == FirstMissing(tasks)
  IN
  IF m # 0
  THEN [fs |-> [f EXCEPT ![p].tasks = WriteData(tasks, m - 1),
                         ![p].hti_out = File([i \in 1..(m - 1) |->
                            HtiRow(switch, step, tasks[i].lambda_out, tasks[i].log.content)])],
        status |-> "FileNotFoundError", res |-> NoResult]
  ELSE _post_tasks_integrate(f, p, tasks, switch, step, c, c1)

\* _post_tasks(iter_name, jdata, scheme, switch, step) on directory p of f;
\* c is the result of integrate_range on the schedule, c1 the result of
\* integrate_range(scheme = 't') on the last two points
_post_tasks(f, p, scheme, switch, step, c, c1) ==
  LET tasks == GlobTasks(f[p])
      m == FirstMissing(tasks)
  IN
  IF m # 0
  THEN [fs |-> [f EXCEPT ![p].tasks = WriteData(tasks, m - 1)],
        status |-> "FileNotFoundError", res |-> NoResult]
  ELSE _post_tasks_integrate(f, p, tasks, switch, step, c, c1)

\* a faulty variant: the reweighting pass leaves an integrand table as well
_post_tasks_mbar_table(f, p, switch, step) ==
  LET tasks == GlobTasks(f[p])
  IN  IF ~HasOutput(tasks[1])
      THEN [fs |-> f, status |-> "FileNotFoundError", res |-> NoResult]
      ELSE IF FirstMissing(tasks) # 0
      THEN [fs |-> [f EXCEPT ![p].tasks = WriteData(tasks, 1)],
            status |-> "NameError", res |-> NoResult]
      ELSE [fs |-> [f EXCEPT ![p].tasks = WriteData(tasks, Len(tasks)),
                             ![p].hti_out = File([i \in 1..Len(tasks) |->
                                HtiRow(switch, step, tasks[i].lambda_out,
                                       tasks[i].log.content)])],
            status |-> "NameError", res |-> NoResult]

\* _post_tasks_mbar(iter_name, jdata, switch, step) on directory p of f: the
\* first task's log is read and its data written, then line 825 reads the
\* name switch_style, which nothing defines
_post_tasks_mbar(f, p, switch, step) ==
  LET tasks == GlobTasks(f[p])
  IN  IF ~HasOutput(tasks[1])
      THEN [fs |-> f, status |-> "FileNotFoundError", res |-> NoResult]
      ELSE [fs |-> [f EXCEPT ![p].tasks = WriteData(tasks, 1)],
            status |-> "NameError", res |-> NoResult]

----------------------------------------------------------------------------
(* post_tasks: the stages of a job, in order, and their combination *)

Methods == {"inte", "mbar"}
Schemes == {"s", "t"}

\* the protocol post_tasks reads from the directory layout
DetectSwitch(f, iter_name) ==
  IF isdir(f, SubPath(iter_name, "00.lj_on")) THEN "three-step"
  ELSE IF isdir(f, SubPath(iter_name, "00.deep_on")) THEN "two-step"
  ELSE "one-step"

\* the stages post_tasks processes for a protocol, in the order of the code
StagesOf(iter_name, switch) ==
  IF switch = "two-step"
  THEN << [path |-> SubPath(iter_name, "00.deep_on"), step |-> "deep_on"],
          [path |-> SubPath(iter_name, "01.spring_off"), step |-> "spring_off"] >>
  ELSE IF switch = "three-step"
  THEN << [path |-> SubPath(iter_name, "00.lj_on"), step |-> "lj_on"],
          [path |-> SubPath(iter_name, "01.deep_on"), step |-> "deep_on"],
          [path |-> SubPath(iter_name, "02.spring_off"), step |-> "spring_off"] >>
  ELSE << [path |-> <<iter_name>>, step |-> "both"] >>

\* one stage by the chosen method; a stage directory that was never created
\* has no conf.lmp and fails the assertion on it
RunStage(f, p, method, scheme, switch, step, ch) ==
  IF ~isdir(f, p)
  THEN [fs |-> f, status |-> "AssertionError", res |-> NoResult]
  ELSE IF method = "inte"
  THEN _post_tasks(f, p, scheme, switch, step, ch.c, ch.c1)
  ELSE _post_tasks_mbar(f, p, switch, step)

\* the stages k.. of the list, each run in the file system the one before it
\* left; the first failing stage ends the call.  done lists the stages that
\* were run, each with what integrate_range returned for its schedule (cum)
RECURSIVE RunStages(_, _, _, _, _, _, _)
RunStages(f, stages, method, scheme, switch, chs, k) ==
  IF k > Len(stages) THEN [fs |-> f, status |-> "ok", done |-> <<>>]
  ELSE CHOOSE out \in
         { IF r.status # "ok"
           THEN [fs |-> r.fs, status |-> r.status,
                 done |-> << [path |-> stages[k].path, step |-> stages[k].step,
                              status |-> r.status, res |-> r.res,
                              cum |-> chs[k].c] >>]
           ELSE CHOOSE all \in
                  { [fs |-> rest.fs, status |-> rest.status,
                     done |-> << [path |-> stages[k].path, step |-> stages[k].step,
                                  status |-> r.status, res |-> r.res,
                                  cum |-> chs[k].c] >> \o rest.done] :
                      rest \in { RunStages(r.fs, stages, method, scheme, switch, chs, k + 1) } } :
                  TRUE :
             r \in { RunStage(f, stages[k].path, method, scheme, switch,
                              stages[k].step, chs[k]) } } : TRUE

\* a faulty variant: the statistical errors are combined without the last stage
CombineDropLast(vals) ==
  [diff_e |-> SumSeq([k \in 1..Len(vals) |-> vals[k].diff_e]),
   err_sq |-> SumSeq([k \in 1..(Len(vals) - 1) |-> vals[k].err_sq]),
   sys_err |-> SumSeq([k \in 1..Len(vals) |-> vals[k].sys_err])]

\* lines 628-631 and 658-661: de, stt_err^2, sys_err of the stage results
Combine(vals) ==
  [diff_e |-> SumSeq([k \in 1..Len(vals) |-> vals[k].diff_e]),
   err_sq |-> SumSeq([k \in 1..Len(vals) |-> vals[k].err_sq]),
   sys_err |-> SumSeq([k \in 1..Len(vals) |-> vals[k].sys_err])]

\* what post_tasks returns after the stages ran: the stage result of a
\* one-step job, the combination of the stage results otherwise
PostResult(switch, run) ==
  IF run.status # "ok" THEN NoResult
  ELSE IF switch = "one-step" THEN run.done[1].res.val
  ELSE Combine([k \in 1..Len(run.done) |-> run.done[k].res.val])

\* tinfo of post_tasks: the thermo_info of the last stage
PostThermo(run) ==
  IF run.status # "ok" THEN NoResult ELSE run.done[Len(run.done)].res.thermo

\* the results integrate_range may give for the calls of one stage: one for
\* the schedule, one for the last two points
StageChoices(f, p, scheme) ==
  IF isdir(f, p) /\ Len(f[p].tasks) >= 2
  THEN LET xx == [i \in 1..Len(f[p].tasks) |-> f[p].tasks[i].lambda_out]
           n == Len(xx)
           cs == integrate_range(xx, scheme)
           c1s == integrate_range(SubSeq(xx, n - 1, n), "t")
           any == CHOOSE c1 \in c1s : TRUE
       IN  \* the second call is made only when the first ends at xx[n - 1]
           { [c |-> c, c1 |-> c1] :
               c \in { x \in cs : x.new_lambda_last = xx[n - 1] }, c1 \in c1s }
           \cup { [c |-> c, c1 |-> any] : c \in { x \in cs : x.new_lambda_last = xx[n] } }
           \cup { [c |-> c, c1 |-> any] :
                   c \in { x \in cs : x.new_lambda_last \notin {xx[n - 1], xx[n]}
                                        /\ x.i = 3 } }
  ELSE { [c |-> NoResult, c1 |-> NoResult] }

\* stage k of the list is reached by the quadrature method only when every
\* stage before it has all its output
Reached(f, stages, method, k) ==
  /\ method = "inte"
  /\ \A j \in 1..k : isdir(f, stages[j].path) /\ StageComplete(f, stages[j].path)

ChoiceSeqs(f, stages, method, scheme) ==
  LET S(k) == IF Reached(f, stages, method, k)
              THEN StageChoices(f, stages[k].path, scheme)
              ELSE { [c |-> NoResult, c1 |-> NoResult] }
  IN  IF Len(stages) = 1 THEN { <<a>> : a \in S(1) }
      ELSE IF Len(stages) = 2 THEN { <<a, b>> : a \in S(1), b \in S(2) }
      ELSE { <<a, b, c>> : a \in S(1), b \in S(2), c \in S(3) }

----------------------------------------------------------------------------
(* refine_task *)

\* '%.8e' at line 751 keeps FmtDigits digits after the first
FmtDigits == 8

RECURSIVE Pow10(_)
Pow10(k) == IF k = 0 THEN 1 ELSE 10 * Pow10(k - 1)

\* floor(r * 10^k / d) and the remainder, digit by digit, for 0 <= r < d
RECURSIVE LongDiv(_, _, _, _)
LongDiv(r, d, k, acc) ==
  IF k = 0 THEN [q |-> acc, r |-> r]
  ELSE LongDiv((r * 10) % d, d, k - 1, acc * 10 + ((r * 10) \div d))

\* np.loadtxt of a number np.savetxt wrote with fmt = '%.8e': the number
\* itself when it has a decimal expansion of that length, else the nearest
\* one (written for 1/10 <= x < 1, where lambdas lie)
Fmt8e(x) ==
  IF Pow10(FmtDigits) % x[2] = 0 THEN x
  ELSE LET ld == LongDiv(x[1], x[2], FmtDigits + 1, 0)
           m == IF 2 * ld.r >= x[2] THEN ld.q + 1 ELSE ld.q
       IN  Rat(m, Pow10(FmtDigits + 1))

\* the counts compute_nrefine may return for ntask points: one positive
\* integer per interval
compute_nrefine(ntask) == [1..(ntask - 1) -> 1..MaxNRefine]

\* a faulty variant: the inserted points are counted from the next point b
PartPointFromNext(a, b, k, jj) ==
  Rat(b[1] * a[2] * k + jj * (b[1] * a[2] - a[1] * b[2]), a[2] * b[2] * k)

\* lines 540-542, point jj of the k equal parts of [a, b]: a + jj * ((b - a) / k),
\* as one fraction over the numerators and denominators of a and b
PartPoint(a, b, k, jj) ==
  Rat(a[1] * b[2] * k + jj * (b[1] * a[2] - a[1] * b[2]), a[2] * b[2] * k)

\* the part of refined_t that interval ii contributes (lines 538-542)
RefinedSeg(all_t, interval_nrefine, ii) ==
  <<all_t[ii]>> \o
  [jj \in 1..(interval_nrefine[ii] - 1) |->
     PartPoint(all_t[ii], all_t[ii + 1], interval_nrefine[ii], jj)]

RECURSIVE RefinedFrom(_, _, _)
RefinedFrom(all_t, interval_nrefine, ii) ==
  IF ii = Len(all_t) THEN <<all_t[ii]>>
  ELSE RefinedSeg(all_t, interval_nrefine, ii) \o RefinedFrom(all_t, interval_nrefine, ii + 1)

\* lines 535-544: refined_t
RefinedT(all_t, interval_nrefine) == RefinedFrom(all_t, interval_nrefine, 1)

RECURSIVE BackMapFrom(_, _, _)
BackMapFrom(ntask, interval_nrefine, ii) ==
  IF ii = ntask THEN <<ii - 1>>
  ELSE (<<ii - 1>> \o [jj \in 1..(interval_nrefine[ii] - 1) |-> -1])
       \o BackMapFrom(ntask, interval_nrefine, ii + 1)

\* a faulty variant: an inserted point is mapped to the original point on its left
BackMapLeftNeighbour(ntask, interval_nrefine) ==
  LET bm == BackMapFrom(ntask, interval_nrefine, 1)
  IN  [p \in 1..Len(bm) |->
         CHOOSE x \in { bm[q] : q \in 1..p } : \A y \in { bm[q] : q \in 1..p } : y <= x]

\* lines 535-545: back_map; the original points are numbered from 0
BackMap(ntask, interval_nrefine) == BackMapFrom(ntask, interval_nrefine, 1)

\* a faulty variant: the copy loop also fills the inserted tasks, from task 0
CopyOutputAll(from_tasks, from_path, to_tasks, back_map) ==
  [ii \in 1..Len(to_tasks) |->
     LET src == IF back_map[ii] < 0 THEN 0 ELSE back_map[ii]
     IN  [to_tasks[ii] EXCEPT
            !.data = from_tasks[src + 1].data,
            !.log = from_tasks[src + 1].log,
            !.from_dir = File(<<from_path, src>>)]]

\* lines 568-577: data, log.lammps and from.dir of the back-mapped tasks
CopyOutput(from_tasks, from_path, to_tasks, back_map) ==
  [ii \in 1..Len(to_tasks) |->
     IF back_map[ii] < 0 THEN to_tasks[ii]
     ELSE [to_tasks[ii] EXCEPT
             !.data = from_tasks[back_map[ii] + 1].data,
             !.log = from_tasks[back_map[ii] + 1].log,
             !.from_dir = File(<<from_path, back_map[ii]>>)]]

\* a faulty variant: the output is moved out of the source tasks, not copied
MoveTasks(f, from_task, to_task, back_map) ==
  [f EXCEPT
     ![to_task].tasks = CopyOutput(f[from_task].tasks, from_task, @, back_map),
     ![from_task].tasks =
        [i \in 1..Len(@) |-> [@[i] EXCEPT !.data = NoFile, !.log = NoFile]]]

\* lines 566-576 on the file system: the copy loop writes in the tasks of
\* to_task only
CopyTasks(f, from_task, to_task, back_map) ==
  [f EXCEPT
     ![to_task].tasks = CopyOutput(f[from_task].tasks, from_task, @, back_map)]

\* lines 525-528: all_t, the first column of hti.out as np.loadtxt reads it
LoadAllT(rows) == [i \in 1..Len(rows) |-> Fmt8e(rows[i].lmbda)]

\* lines 549-555: the configuration of the refined stage
ToJdata(from_jdata, from_task, refined_t, back_map, err) ==
  DictSet(DictSet(DictSet(DictSet(from_jdata,
    "lambda", refined_t), "orig_task", from_task),
    "back_map", back_map), "refine_error", err)

----------------------------------------------------------------------------
(* The state machine *)

Grid == { Rat(i, GridDen) : i \in 0..GridDen }

\* the well-formed schedules: strictly increasing values of [0, 1], length >= 2
Schedules ==
  { s \in UNION { [1..n -> Grid] : n \in 2..MaxLen } : StrictlyIncreasing(s) }

\* the configured protect_eps: none, a small one, one as large as a grid step
ProtectEps == { Zero, Rat(1, 10), Rat(1, 2) }

Config(l, ld, ls, ll, eps) ==
  [lambda |-> l, lambda_deep_on |-> ld, lambda_spring_off |-> ls,
   lambda_lj_on |-> ll, protect_eps |-> eps]

\* every configuration of the planner
PlanConfigs ==
  { Config(l, ld, ls, ll, eps) :
      l \in Schedules, ld \in Schedules, ls \in Schedules, ll \in Schedules,
      eps \in ProtectEps }

\* the configuration of the job that is simulated, post-processed and refined
JobConfig ==
  Config(<<Zero, Rat(1, 2), One>>, <<Zero, One>>, <<Rat(1, 2), One>>,
         <<Zero, Rat(1, 2)>>, Rat(1, 10))

\* the refinement error budget passed to refine_task
RefineErr == Rat(1, 100)

\* the most tasks a stage can have: a refined schedule of the longest one
MaxTasks == MaxLen + (MaxLen - 1) * (MaxNRefine - 1)

\* ret is the outcome of the call that returned last, NoRet once taken
NoRet == [op |-> "none"]

Init ==
  /\ sample \in Samples
  /\ jdata = JobConfig
  /\ fs = [p \in Paths |-> NoDir]
  /\ cwd = "."
  /\ ret = NoRet

InitPlan ==
  /\ sample \in {0}
  /\ jdata \in PlanConfigs
  /\ fs = [p \in Paths |-> NoDir]
  /\ cwd = "."
  /\ ret = NoRet

\* hti.py gen: make_tasks(output, jdata, 'einstein', switch)
MakeTasks(switch) ==
  /\ ret = NoRet
  /\ ~isdir(fs, <<"job">>)
  /\ LET r == make_tasks([fs |-> fs, jdata |-> jdata, cwd |-> cwd, status |-> "ok"],
                         "job", "einstein", switch)
     IN  /\ fs' = r.fs
         /\ jdata' = r.jdata
         /\ cwd' = r.cwd
         /\ ret' = [op |-> "make_tasks", switch |-> switch, status |-> r.status,
                    config |-> jdata]
         /\ UNCHANGED sample

\* the simulation of one task ends and leaves its log.lammps
RunTask(p, i) ==
  /\ ret = NoRet
  /\ isdir(fs, p)
  /\ i \in 1..Len(fs[p].tasks)
  /\ ~HasOutput(fs[p].tasks[i])
  /\ fs' = [fs EXCEPT ![p].tasks[i].log = File(ObsOf(sample, i))]
  /\ UNCHANGED <<jdata, cwd, sample>>
  /\ ret' = NoRet

\* the stage directories an end-point simulation is set up in: the one-step
\* job and the last stage of a two-step job
EndPntStages == { <<"job">>, <<"job", "01.spring_off">> }

\* a directory task.endpnt is set up in a stage directory, and its
\* simulation ends and leaves its log.lammps
AddEndPoint(p) ==
  /\ ret = NoRet
  /\ isdir(fs, p)
  /\ Len(fs[p].tasks) > 0
  /\ ~fs[p].endpnt.exists
  /\ fs' = [fs EXCEPT ![p].endpnt = EndPnt(NoFile)]
  /\ UNCHANGED <<jdata, cwd, sample, ret>>

RunEndPoint(p) ==
  /\ ret = NoRet
  /\ isdir(fs, p)
  /\ fs[p].endpnt.exists
  /\ ~fs[p].endpnt.log.exists
  /\ fs' = [fs EXCEPT ![p].endpnt = EndPnt(File(EndPntObs))]
  /\ UNCHANGED <<jdata, cwd, sample, ret>>

\* hti.py compute: post_tasks(iter_name, jdata, method, scheme)
PostTasks(iter_name, method, scheme) ==
  /\ ret = NoRet
  /\ isdir(fs, <<iter_name>>)
  /\ \E switch \in { DetectSwitch(fs, iter_name) } :
     \E stages \in { StagesOf(iter_name, switch) } :
     \E chs \in ChoiceSeqs(fs, stages, method, scheme) :
     \E run \in { RunStages(fs, stages, method, scheme, switch, chs, 1) } :
       /\ fs' = run.fs
       /\ ret' = [op |-> "post_tasks", iter_name |-> iter_name, method |-> method,
                  status |-> run.status, switch |-> switch, stages |-> run.done,
                  val |-> PostResult(switch, run), thermo |-> PostThermo(run)]
  /\ UNCHANGED <<jdata, cwd, sample>>

\* a faulty variant: the Gibbs statistical error is the integration's alone
GibbsNoPVErr(e0, de, thermo_info) ==
  [value |-> e0 + de.diff_e + thermo_info.pv,
   err_sq |-> de.err_sq,
   sys_err |-> de.sys_err]

\* lines 931-933: the Helmholtz free energy and its two errors
Helmholtz(e0, de) ==
  [value |-> e0 + de.diff_e, err_sq |-> de.err_sq, sys_err |-> de.sys_err]

\* lines 934-940: the Gibbs free energy and its two errors
Gibbs(e0, de, thermo_info) ==
  [value |-> e0 + de.diff_e + thermo_info.pv,
   err_sq |-> de.err_sq + thermo_info.pv_err_sq,
   sys_err |-> de.sys_err]

\* what einstein.free_energy(job) may return
ReferenceEnergies == {-4, 6}

Types == {"helmholtz", "gibbs"}

\* hti.py compute, after post_tasks has returned: the read-out of the free
\* energy of the chosen type from the reference free energy e0
ReadOut(type, e0) ==
  /\ ret.op = "post_tasks"
  /\ ret.status = "ok"
  /\ ret' = [op |-> "compute", type |-> type, e0 |-> e0, de |-> ret.val,
             thermo |-> ret.thermo,
             out |-> IF type = "helmholtz" THEN Helmholtz(e0, ret.val)
                     ELSE Gibbs(e0, ret.val, ret.thermo)]
  /\ UNCHANGED <<jdata, fs, cwd, sample>>

\* the (switch, step) pairs of a call of _post_tasks that post_tasks never
\* makes, one per raise of lines 725, 735 and 737
UnknownKinds ==
  { <<"one-step", "lj_on">>, <<"three-step", "both">>, <<"four-step", "both">> }

\* _post_tasks(p, jdata, scheme, switch, step) called on a stage directory
\* with a kind of UnknownKinds
PostStage(p, kind) ==
  /\ ret = NoRet
  /\ isdir(fs, p)
  /\ \E r \in { _post_tasks(fs, p, "t", kind[1], kind[2], NoResult, NoResult) } :
       /\ fs' = r.fs
       /\ ret' = [op |-> "_post_tasks", path |-> p, switch |-> kind[1],
                  step |-> kind[2], status |-> r.status, res |-> r.res]
  /\ UNCHANGED <<jdata, cwd, sample>>

\* a faulty variant: the target directory is made before hti.out is looked for
RefineMissingAfterCreate(from_task, print_ref) ==
  /\ ret = NoRet
  /\ isdir(fs, from_task)
  /\ ~fs[from_task].hti_out.exists
  /\ ret' = [op |-> "refine_task", from_task |-> from_task, print_ref |-> print_ref,
             status |-> "RuntimeError", out |-> NoResult]
  /\ fs' = [fs EXCEPT ![<<"refined">>] = JobDir(fs[from_task].in_json.content)]
  /\ UNCHANGED <<jdata, cwd, sample>>

\* refine_task(from_task, 'refined', err, print_ref) when the source has no
\* hti.out (lines 522-524)
RefineMissing(from_task, print_ref) ==
  /\ ret = NoRet
  /\ isdir(fs, from_task)
  /\ ~fs[from_task].hti_out.exists
  /\ ret' = [op |-> "refine_task", from_task |-> from_task, print_ref |-> print_ref,
             status |-> "RuntimeError", out |-> NoResult]
  /\ UNCHANGED <<jdata, fs, cwd, sample>>

\* refine_task(from_task, 'refined', err, print_ref) when the source has an
\* hti.out (lines 525-577); a call that builds the stage is made for a target
\* that does not exist yet
RefineTask(from_task, print_ref) ==
  /\ ret = NoRet
  /\ isdir(fs, from_task)
  /\ print_ref \/ ~isdir(fs, <<"refined">>)
  /\ fs[from_task].hti_out.exists
  /\ \E all_t \in { LoadAllT(fs[from_task].hti_out.content) } :
     \E interval_nrefine \in compute_nrefine(Len(all_t)) :
       IF print_ref
       THEN /\ ret' = [op |-> "refine_task", from_task |-> from_task,
                       print_ref |-> print_ref, status |-> "ok",
                       out |-> [printed |-> interval_nrefine]]
            /\ UNCHANGED <<jdata, fs, cwd, sample>>
       ELSE
         \E refined_t \in { RefinedT(all_t, interval_nrefine) } :
         \E back_map \in { BackMap(Len(all_t), interval_nrefine) } :
         \E to_jdata \in { ToJdata(fs[from_task].in_json.content, from_task,
                                   refined_t, back_map, RefineErr) } :
         \E made \in { make_tasks([fs |-> fs, jdata |-> to_jdata, cwd |-> cwd,
                                   status |-> "ok"],
                                  "refined", to_jdata["reference"], "one-step") } :
           /\ cwd' = made.cwd
           /\ UNCHANGED <<jdata, sample>>
           /\ IF made.status # "ok"
              THEN /\ fs' = made.fs
                   /\ ret' = [op |-> "refine_task", from_task |-> from_task,
                              print_ref |-> print_ref, status |-> made.status,
                              out |-> NoResult]
              ELSE IF \/ Len(fs[from_task].tasks) # Len(all_t)
                      \/ Len(made.fs[<<"refined">>].tasks) # Len(refined_t)
              THEN /\ fs' = made.fs
                   /\ ret' = [op |-> "refine_task", from_task |-> from_task,
                              print_ref |-> print_ref, status |-> "AssertionError",
                              out |-> NoResult]
              ELSE /\ fs' = CopyTasks(made.fs, from_task, <<"refined">>, back_map)
                   /\ ret' = [op |-> "refine_task", from_task |-> from_task,
                              print_ref |-> print_ref, status |-> "ok",
                              out |-> [all_t |-> all_t,
                                       interval_nrefine |-> interval_nrefine,
                                       refined_t |-> refined_t,
                                       back_map |-> back_map]]

\* the caller takes the result of the call that returned; the next call
\* starts after that
Return ==
  /\ ret # NoRet
  /\ ret' = NoRet
  /\ UNCHANGED <<jdata, fs, cwd, sample>>

Next ==
  \/ \E switch \in Switches \cup {"four-step"} : MakeTasks(switch)
  \/ \E p \in Paths, i \in 1..MaxTasks : RunTask(p, i)
  \/ \E p \in EndPntStages : AddEndPoint(p)
  \/ \E p \in EndPntStages : RunEndPoint(p)
  \/ \E iter_name \in JobNames, method \in Methods, scheme \in Schemes :
       PostTasks(iter_name, method, scheme)
  \/ \E type \in Types, e0 \in ReferenceEnergies : ReadOut(type, e0)
  \/ \E p \in Paths, kind \in UnknownKinds : PostStage(p, kind)
  \/ \E from_task \in Paths, print_ref \in BOOLEAN : RefineMissing(from_task, print_ref)
  \/ \E from_task \in Paths, print_ref \in BOOLEAN : RefineTask(from_task, print_ref)
  \/ Return

Spec == Init /\ [][Next]_vars

NextPlan == \E switch \in Switches \cup {"four-step"} : MakeTasks(switch)

SpecPlan == InitPlan /\ [][NextPlan]_vars

\* a configuration file that lacks key k
DropKey(d, k) == [x \in DOMAIN d \ {k} |-> d[x]]

ScheduleKeys == {"lambda", "lambda_deep_on", "lambda_spring_off", "lambda_lj_on"}

\* every configuration of the planner with one schedule key left out
KeyConfigs == { DropKey(c, k) : c \in PlanConfigs, k \in ScheduleKeys }

InitKeys ==
  /\ sample \in {0}
  /\ jdata \in KeyConfigs
  /\ fs = [p \in Paths |-> NoDir]
  /\ cwd = "."
  /\ ret = NoRet

SpecKeys == InitKeys /\ [][NextPlan]_vars

----------------------------------------------------------------------------
(* get_thermo: the text of a log.lammps, read line by line *)

\* the lines a log may hold: text that is no number, the thermo header, the
\* end marker of a run, a row of thermo output, an empty line
TextLine == "LAMMPS (7 Aug 2019)"
HeaderLine == "Step KinEng PotEng TotEng"
EndLine == "Loop time of 1.0 on 1 procs"
RowLines == {"1", "2"}
BlankLine == ""
LogLines == {TextLine, HeaderLine, EndLine, BlankLine} \cup RowLines

\* fp.read().split('\n'): at least one line, whatever the file holds
LogFiles == UNION { [1..n -> LogLines] : n \in 1..MaxLogLines }

\* 'Step KinEng PotEng TotEng' in line, 'Loop time of' in line
HasHeader(line) == line = HeaderLine
HasEnd(line) == line = EndLine

\* the value of the loop variable after `for i in range(len(fc))` that
\* breaks at the first line with the mark, marked[i] saying whether line i
\* has it: the index of that line, or of the last line when the loop runs to
\* its end (indices from 1)
LoopIndex(marked) ==
  IF \E i \in 1..Len(marked) : marked[i]
  THEN CHOOSE i \in 1..Len(marked) : marked[i] /\ \A j \in 1..(i - 1) : ~marked[j]
  ELSE Len(marked)

\* float(jj) of the one column a row line holds
ParseFloat(jj) == IF jj = "1" THEN 1 ELSE 2

\* [float(jj) for jj in line.split()]: the columns of a row line, none for
\* an empty line; any other line has a word float() rejects
Parses(line) == line \in RowLines \cup {BlankLine}
ParseRow(line) == IF line = BlankLine THEN <<>> ELSE << ParseFloat(line) >>

\* get_thermo(filename) on a file of lines fc: the outcomes it may have.
\* np.array of rows of unequal length raises in some numpy versions and
\* gives an array of lists in others.
get_thermo(fc) ==
  LET sl == LoopIndex([i \in 1..Len(fc) |-> HasHeader(fc[i])])
      el == LoopIndex([i \in 1..Len(fc) |-> HasEnd(fc[i])])
      range == { ii \in 1..Len(fc) : sl + 1 <= ii /\ ii < el }
      data == [k \in 1..Cardinality(range) |-> ParseRow(fc[sl + k])]
      ragged == \E a, b \in range : Len(ParseRow(fc[a])) # Len(ParseRow(fc[b]))
  IN  IF \E ii \in range : ~Parses(fc[ii])
      THEN { [status |-> "ValueError", data |-> <<>>] }
      ELSE IF ragged
      THEN { [status |-> "ValueError", data |-> <<>>], [status |-> "ok", data |-> data] }
      ELSE { [status |-> "ok", data |-> data] }

\* data[:, 8] at line 694 of _post_tasks: the column the integrand is averaged
\* from, which an array without rows or without columns does not have
TakeColumn(data) ==
  IF data # <<>> /\ \A k \in 1..Len(data) : data[k] # <<>>
  THEN [status |-> "ok", series |-> [k \in 1..Len(data) |-> data[k][1]]]
  ELSE [status |-> "IndexError", series |-> <<>>]

\* the log.lammps of one task, as the simulation has written it so far
InitLog ==
  /\ sample \in LogFiles
  /\ jdata = JobConfig
  /\ fs = [p \in Paths |-> NoDir]
  /\ cwd = "."
  /\ ret = NoRet

\* line 693 of _post_tasks: data = get_thermo(log_name)
GetThermo ==
  /\ ret = NoRet
  /\ \E r \in get_thermo(sample) :
       ret' = [op |-> "get_thermo", fc |-> sample, status |-> r.status, data |-> r.data]
  /\ UNCHANGED <<jdata, fs, cwd, sample>>

\* lines 694-696 of _post_tasks: the series the task's integrand is the
\* block average of
TakeSeries ==
  /\ ret.op = "get_thermo"
  /\ ret.status = "ok"
  /\ \E c \in { TakeColumn(ret.data) } :
       ret' = [op |-> "block_avg", fc |-> ret.fc, status |-> c.status, series |-> c.series]
  /\ UNCHANGED <<jdata, fs, cwd, sample>>

NextLog == GetThermo \/ TakeSeries

SpecLog == InitLog /\ [][NextLog]_vars

----------------------------------------------------------------------------
(* Properties of refine_task *)

\* refine_task has returned from building a refined stage
RefineDone == ret.op = "refine_task" /\ ret.status = "ok" /\ ~ret.print_ref

\* the positions of a back map that hold an original point
Mapped(back_map) == { p \in 1..Len(back_map) : back_map[p] # -1 }

\* C1: after refine_task, for a source schedule of n >= 2 points and the
\* positive counts compute_nrefine returned, every original point i
\* (0 <= i < n) is at a position p of the refined schedule with
\* refined_t[p] = all_t[i] and back_map[p] = i, and every other position has
\* back_map = -1.
C1_OriginalsBackMapped ==
  RefineDone =>
    LET all_t == ret.out.all_t
        refined_t == ret.out.refined_t
        back_map == ret.out.back_map
        n == Len(all_t)
    IN  /\ n >= 2
        /\ Len(back_map) = Len(refined_t)
        /\ \A i \in 0..(n - 1) :
             \E p \in 1..Len(refined_t) :
               refined_t[p] = all_t[i + 1] /\ back_map[p] = i
        /\ \A p \in Mapped(back_map) :
             /\ back_map[p] \in 0..(n - 1)
             /\ refined_t[p] = all_t[back_map[p] + 1]
        /\ Cardinality(Mapped(back_map)) = n

\* C1 happens: a refined stage with both kept and inserted points
C1_Witness ==
  /\ RefineDone
  /\ \E p \in 1..Len(ret.out.back_map) : ret.out.back_map[p] = -1
  /\ \E p \in 1..Len(ret.out.back_map) : ret.out.back_map[p] = Len(ret.out.all_t) - 1

\* 1-based position in refined_t of the original point number ii (1-based)
PosOf(interval_nrefine, ii) ==
  ii + SumSeq([j \in 1..(ii - 1) |-> interval_nrefine[j] - 1])

\* a + j * (b - a) / k
EvenPoint(a, b, k, j) ==
  RatAdd(a, RatMul(Int2Rat(j), RatDiv(RatSub(b, a), Int2Rat(k))))

\* C2: after refine_task, interval i with count k_i >= 1 has exactly k_i - 1
\* inserted points between the original points i and i+1, at
\* lambda_i + j * (lambda_(i+1) - lambda_i) / k_i for j = 1..k_i - 1; the
\* refined schedule is strictly increasing when the source schedule is, and
\* len(refined_t) = len(back_map) = n + sum of (k_i - 1).
C2_InsertedPoints ==
  RefineDone =>
    LET all_t == ret.out.all_t
        refined_t == ret.out.refined_t
        back_map == ret.out.back_map
        k == ret.out.interval_nrefine
        n == Len(all_t)
    IN  /\ \A i \in 1..(n - 1) :
             /\ k[i] >= 1
             /\ PosOf(k, i + 1) - PosOf(k, i) - 1 = k[i] - 1
             /\ back_map[PosOf(k, i)] = i - 1
             /\ back_map[PosOf(k, i + 1)] = i
             /\ \A j \in 1..(k[i] - 1) :
                  /\ back_map[PosOf(k, i) + j] = -1
                  /\ refined_t[PosOf(k, i) + j] =
                       EvenPoint(all_t[i], all_t[i + 1], k[i], j)
        /\ StrictlyIncreasing(all_t) => StrictlyIncreasing(refined_t)
        /\ Len(refined_t) = n + SumSeq([i \in 1..(n - 1) |-> k[i] - 1])
        /\ Len(back_map) = Len(refined_t)

\* C2 happens: a strictly increasing source schedule, one interval split and
\* one interval kept
C2_Witness ==
  /\ RefineDone
  /\ StrictlyIncreasing(ret.out.all_t)
  /\ \E i \in DOMAIN ret.out.interval_nrefine : ret.out.interval_nrefine[i] >= 2
  /\ \E i \in DOMAIN ret.out.interval_nrefine : ret.out.interval_nrefine[i] = 1

\* C3: when refine_task has returned (the refined stage did not exist
\* before), every refined task whose back_map entry is i >= 0 holds a copy of
\* data and log.lammps of source task i and a from.dir naming source task i;
\* every task whose entry is -1 holds no simulation output; there are
\* len(refined_t) refined tasks and as many source tasks as rows of hti.out.
C3_OutputCopied ==
  RefineDone =>
    LET src == fs[ret.from_task]
        dst == fs[<<"refined">>]
        back_map == ret.out.back_map
    IN  /\ dst.exists
        /\ Len(dst.tasks) = Len(ret.out.refined_t)
        /\ Len(src.tasks) = Len(src.hti_out.content)
        /\ \A ii \in 1..Len(dst.tasks) :
             IF back_map[ii] >= 0
             THEN /\ src.tasks[back_map[ii] + 1].data.exists
                  /\ src.tasks[back_map[ii] + 1].log.exists
                  /\ dst.tasks[ii].data = src.tasks[back_map[ii] + 1].data
                  /\ dst.tasks[ii].log = src.tasks[back_map[ii] + 1].log
                  /\ dst.tasks[ii].from_dir = File(<<ret.from_task, back_map[ii]>>)
             ELSE /\ ~dst.tasks[ii].data.exists
                  /\ ~dst.tasks[ii].log.exists
                  /\ ~dst.tasks[ii].from_dir.exists

\* C3 happens: a refined stage with a copied task and a task to resimulate
C3_Witness ==
  /\ RefineDone
  /\ \E ii \in 1..Len(fs[<<"refined">>].tasks) :
       /\ ret.out.back_map[ii] >= 1
       /\ fs[<<"refined">>].tasks[ii].log.exists
  /\ \E ii \in 1..Len(fs[<<"refined">>].tasks) :
       /\ ret.out.back_map[ii] = -1
       /\ ~fs[<<"refined">>].tasks[ii].log.exists

----------------------------------------------------------------------------
(* Properties of make_tasks and _make_tasks *)

\* make_tasks has returned; ret.config is the configuration it was given
MakeDone == ret.op = "make_tasks"

\* the stages a protocol is to have, in order, each with its schedule key
PlanOf(switch) ==
  IF switch = "one-step"
  THEN << [path |-> <<"job">>, step |-> "both", key |-> "lambda"] >>
  ELSE IF switch = "two-step"
  THEN << [path |-> <<"job", "00.deep_on">>, step |-> "deep_on",
           key |-> "lambda_deep_on"],
          [path |-> <<"job", "01.spring_off">>, step |-> "spring_off",
           key |-> "lambda_spring_off"] >>
  ELSE IF switch = "three-step"
  THEN << [path |-> <<"job", "00.lj_on">>, step |-> "lj_on",
           key |-> "lambda_lj_on"],
          [path |-> <<"job", "01.deep_on">>, step |-> "deep_on",
           key |-> "lambda_deep_on"],
          [path |-> <<"job", "02.spring_off">>, step |-> "spring_off",
           key |-> "lambda_spring_off"] >>
  ELSE << >>

\* the values of the tasks' lambda.out of a stage directory, in task order
LambdaOut(dir) == [i \in 1..Len(dir.tasks) |-> dir.tasks[i].lambda_out]

\* value i of schedule sched once its end points are protected by eps
Protected(sched, eps, i) ==
  IF i = 1 /\ sched[1] = Zero THEN eps
  ELSE IF i = Len(sched) /\ sched[i] = One THEN RatSub(One, eps)
  ELSE sched[i]

\* C4 (as claimed): for every well-formed input sequence and every configured
\* protect_eps, the schedule _make_tasks writes to the tasks' lambda.out is
\* strictly increasing, has no duplicate and contains neither 0 nor 1.
C4_ScheduleOpenAndIncreasing ==
  (MakeDone /\ ret.status = "ok") =>
    \A k \in 1..Len(PlanOf(ret.switch)) :
      LET out == LambdaOut(fs[PlanOf(ret.switch)[k].path])
      IN  /\ StrictlyIncreasing(out)
          /\ NoDuplicate(out)
          /\ \A i \in 1..Len(out) : out[i] # Zero /\ out[i] # One

\* C5: _make_tasks replaces the first schedule value by protect_eps exactly
\* when it is 0 and the last by 1 - protect_eps exactly when it is 1; the
\* other values, their number and their order are unchanged, and a stage's
\* schedule is protected from its own values only.
C5_NudgeEndPointsOnly ==
  (MakeDone /\ ret.status = "ok") =>
    \A k \in 1..Len(PlanOf(ret.switch)) :
      LET st == PlanOf(ret.switch)[k]
          sched == ret.config[st.key]
          eps == ret.config["protect_eps"]
          out == LambdaOut(fs[st.path])
          n == Len(sched)
      IN  /\ Len(out) = n
          /\ out[1] = (IF sched[1] = Zero THEN eps ELSE sched[1])
          /\ out[n] = (IF sched[n] = One THEN RatSub(One, eps) ELSE sched[n])
          /\ \A i \in 2..(n - 1) : out[i] = sched[i]

\* C5 happens: a three-step job where one stage has only its first value
\* replaced, another only its last, by a protect_eps that changes them
C5_Witness ==
  /\ MakeDone /\ ret.status = "ok" /\ ret.switch = "three-step"
  /\ ret.config["protect_eps"] # Zero
  /\ LET a == ret.config["lambda_lj_on"]
         b == ret.config["lambda_deep_on"]
         oa == LambdaOut(fs[<<"job", "00.lj_on">>])
         ob == LambdaOut(fs[<<"job", "01.deep_on">>])
     IN  /\ a[1] = Zero /\ a[Len(a)] # One
         /\ oa[1] # a[1] /\ oa[Len(a)] = a[Len(a)]
         /\ b[1] # Zero /\ b[Len(b)] = One
         /\ ob[1] = b[1] /\ ob[Len(b)] # b[Len(b)]

\* C6: with every schedule key configured, make_tasks creates for one-step
\* exactly one stage of kind both from key 'lambda'; for two-step exactly the
\* stages deep_on, spring_off from 'lambda_deep_on', 'lambda_spring_off'; for
\* three-step exactly lj_on, deep_on, spring_off from 'lambda_lj_on',
\* 'lambda_deep_on', 'lambda_spring_off'; each stage has one task per value of
\* its own schedule; an unknown protocol creates nothing and raises.
C6_StagesOfProtocol ==
  MakeDone =>
    IF ret.switch \in {"one-step", "two-step", "three-step"}
    THEN LET plan == PlanOf(ret.switch)
             made == { p \in Paths : fs[p].exists /\ Len(fs[p].tasks) > 0 }
         IN  /\ ret.status = "ok"
             /\ made = { plan[k].path : k \in 1..Len(plan) }
             /\ { p \in Paths : fs[p].exists } = made \cup { <<"job">> }
             /\ \A k \in 1..Len(plan) :
                  LET dir == fs[plan[k].path]
                      sched == ret.config[plan[k].key]
                  IN  /\ dir.in_json.content["step"] = plan[k].step
                      /\ dir.in_json.content["switch"] = ret.switch
                      /\ Len(dir.tasks) = Len(sched)
                      /\ \A i \in 1..Len(sched) :
                           dir.tasks[i].lambda_out =
                             Protected(sched, ret.config["protect_eps"], i)
    ELSE /\ ret.status = "RuntimeError"
         /\ \A p \in Paths : ~fs[p].exists

\* C6 happens: a three-step job whose three stages have their own schedules
C6_Witness ==
  /\ MakeDone /\ ret.status = "ok" /\ ret.switch = "three-step"
  /\ Len(fs[<<"job", "00.lj_on">>].tasks) = Len(ret.config["lambda_lj_on"])
  /\ Len(fs[<<"job", "01.deep_on">>].tasks) = Len(ret.config["lambda_deep_on"])
  /\ Len(fs[<<"job", "02.spring_off">>].tasks) = Len(ret.config["lambda_spring_off"])
  /\ Len(ret.config["lambda_lj_on"]) # Len(ret.config["lambda_deep_on"])
  /\ ret.config["lambda_deep_on"] # ret.config["lambda_spring_off"]

----------------------------------------------------------------------------
(* Properties of post_tasks and _post_tasks *)

\* post_tasks has returned; ret.stages lists the stages it ran
PostDone == ret.op = "post_tasks"

\* C7: for the N = 2 (two-step) and N = 3 (three-step) stage results that
\* post_tasks combines in stage order, the total free energy is the sum of the
\* stage values, the squared statistical error is the sum of the squared stage
\* statistical errors, and the systematic error is the sum of the stage
\* systematic errors.
C7_StagesCombined ==
  (PostDone /\ ret.status = "ok" /\ ret.switch # "one-step") =>
    LET v(k) == ret.stages[k].res.val
    IN  IF ret.switch = "two-step"
        THEN /\ Len(ret.stages) = 2
             /\ ret.stages[1].step = "deep_on" /\ ret.stages[2].step = "spring_off"
             /\ ret.val.diff_e = v(1).diff_e + v(2).diff_e
             /\ ret.val.err_sq = v(1).err_sq + v(2).err_sq
             /\ ret.val.sys_err = v(1).sys_err + v(2).sys_err
        ELSE /\ Len(ret.stages) = 3
             /\ ret.stages[1].step = "lj_on" /\ ret.stages[2].step = "deep_on"
             /\ ret.stages[3].step = "spring_off"
             /\ ret.val.diff_e = v(1).diff_e + v(2).diff_e + v(3).diff_e
             /\ ret.val.err_sq = v(1).err_sq + v(2).err_sq + v(3).err_sq
             /\ ret.val.sys_err = v(1).sys_err + v(2).sys_err + v(3).sys_err

\* C7 happens: two stages with statistical errors 3 and 4 and systematic
\* errors 1 and 2 give 5 and 3
C7_Witness ==
  /\ PostDone /\ ret.status = "ok" /\ ret.switch = "two-step"
  /\ ret.stages[1].res.val.err_sq = 3 * 3 /\ ret.stages[2].res.val.err_sq = 4 * 4
  /\ ret.stages[1].res.val.sys_err = 1 /\ ret.stages[2].res.val.sys_err = 2
  /\ ret.val.err_sq = 5 * 5 /\ ret.val.sys_err = 3

\* the protocol and kind of the stage a directory holds
KindOf(p) ==
  IF Len(p) = 1 THEN <<"one-step", "both">>
  ELSE IF p[2] = "00.deep_on" THEN <<"two-step", "deep_on">>
  ELSE IF p[2] = "01.spring_off" THEN <<"two-step", "spring_off">>
  ELSE IF p[2] = "00.lj_on" THEN <<"three-step", "lj_on">>
  ELSE IF p[2] = "01.deep_on" THEN <<"three-step", "deep_on">>
  ELSE <<"three-step", "spring_off">>

\* the table's integrand for a stage kind at lambda ll; raw says which kinds
\* of the three-step protocol take Ed as it is
TableDU(kind, ll, o, raw) ==
  LET Ed == Int2Rat(o.ed)
      Es == Int2Rat(o.es)
      three == kind[1] = "three-step"
  IN  IF kind[2] = "both"
      THEN RatSub(RatDiv(Ed, ll), RatDiv(Es, RatSub(One, ll)))
      ELSE IF kind[2] = "deep_on"
      THEN (IF three /\ "deep_on" \in raw THEN Ed ELSE RatDiv(Ed, ll))
      ELSE IF kind[2] = "spring_off"
      THEN (IF three THEN RatAdd(RatNeg(RatDiv(Es, RatSub(One, ll))), Ed)
            ELSE RatNeg(RatDiv(Es, RatSub(One, ll))))
      ELSE Ed

\* the table's integrand error, squared
TableErrSq(kind, ll, o, raw) ==
  LET EdE == Int2Rat(o.ed_err_sq)
      EsE == Int2Rat(o.es_err_sq)
      three == kind[1] = "three-step"
  IN  IF kind[2] = "both"
      THEN RatAdd(RatDiv(EdE, RatSq(ll)), RatDiv(EsE, RatSq(RatSub(One, ll))))
      ELSE IF kind[2] = "deep_on"
      THEN (IF three /\ "deep_on" \in raw THEN EdE ELSE RatDiv(EdE, RatSq(ll)))
      ELSE IF kind[2] = "spring_off"
      THEN (IF three THEN RatAdd(RatDiv(EsE, RatSq(RatSub(One, ll))), EdE)
            ELSE RatDiv(EsE, RatSq(RatSub(One, ll))))
      ELSE EdE

\* every hti.out holds, per task, the table's integrand and error
RowsFollowTable(raw) ==
  \A p \in Paths :
    (fs[p].exists /\ fs[p].hti_out.exists) =>
      LET rows == fs[p].hti_out.content
          tasks == fs[p].tasks
      IN  /\ Len(rows) = Len(tasks)
          /\ \A i \in 1..Len(rows) :
               /\ rows[i].lmbda = tasks[i].lambda_out
               /\ rows[i].dU =
                    TableDU(KindOf(p), tasks[i].lambda_out, tasks[i].log.content, raw)
               /\ rows[i].dU_err_sq =
                    TableErrSq(KindOf(p), tasks[i].lambda_out, tasks[i].log.content, raw)

\* a call of _post_tasks with a kind outside the table fails and has no result
UnknownKindRejected ==
  ret.op = "_post_tasks" =>
    /\ ret.status # "ok"
    /\ ret.res = NoResult
    /\ StageComplete(fs, ret.path) => ret.status = "RuntimeError"

\* C8 (as claimed): for every stage of every protocol the integrand and error
\* written to hti.out are: both -> Ed/lambda - Es/(1-lambda); deep_on ->
\* Ed/lambda with Ed_err/lambda; spring_off -> -Es/(1-lambda) (three-step:
\* -Es/(1-lambda) + Ed); lj_on -> Ed with Ed_err; other kinds are rejected.
C8_TableAsClaimed == RowsFollowTable({}) /\ UnknownKindRejected

\* C8 (amended): as claimed, except that the deep_on stage of the three-step
\* protocol has integrand Ed with error Ed_err, like lj_on.
C8_TableThreeStepDeepOnRaw == RowsFollowTable({"deep_on"}) /\ UnknownKindRejected

\* C8 happens: the deep_on stage of a three-step job has its hti.out, at a
\* lambda where Ed and Ed/lambda differ
C8_Witness ==
  /\ fs[<<"job", "01.deep_on">>].exists
  /\ fs[<<"job", "01.deep_on">>].hti_out.exists
  /\ \E i \in 1..Len(fs[<<"job", "01.deep_on">>].tasks) :
       LET t == fs[<<"job", "01.deep_on">>].tasks[i]
       IN  /\ t.lambda_out # One
           /\ t.log.content.ed # 0
           /\ fs[<<"job", "01.deep_on">>].hti_out.content[i].dU = Int2Rat(t.log.content.ed)

\* the stage's call of _post_tasks got as far as integrate_range
Integrated(d) == ret.method = "inte" /\ isdir(fs, d.path) /\ StageComplete(fs, d.path)

\* the log the thermo_info of the stage is read from is there: a stage with a
\* task.endpnt directory has the end point's log
ThermoReadable(p) == fs[p].endpnt.exists => fs[p].endpnt.log.exists

\* C9: in _post_tasks, when the cumulative result of integrate_range ends at
\* the final schedule lambda, the stage result is its last integral,
\* statistical and systematic error unchanged; when it ends at the penultimate
\* lambda, the last two points are integrated with the trapezoidal rule and
\* the stage result is the sum of the two integrals, the square root of the
\* sum of the two squared statistical errors, the sum of the systematic errors.
\* (The call returns a result only if the thermo_info can be read afterwards.)
C9_TailInterval ==
  PostDone =>
    \A k \in 1..Len(ret.stages) :
      LET d == ret.stages[k]
          xx == LambdaOut(fs[d.path])
          n == Len(xx)
          c == d.cum
      IN  (Integrated(d) /\ ThermoReadable(d.path)) =>
            /\ c.new_lambda_last = xx[n] =>
                 /\ d.status = "ok"
                 /\ d.res.val = [diff_e |-> c.i, err_sq |-> c.s_e_sq, sys_err |-> c.i_e]
                 /\ ~d.res.tail.used
            /\ (c.new_lambda_last # xx[n] /\ c.new_lambda_last = xx[n - 1]) =>
                 /\ d.status = "ok"
                 /\ d.res.tail.used
                 /\ d.res.tail.scheme = "t"
                 /\ d.res.tail.xx = <<xx[n - 1], xx[n]>>
                 /\ d.res.val.diff_e = c.i + d.res.tail.c1.i
                 /\ d.res.val.err_sq = c.s_e_sq + d.res.tail.c1.s_e_sq
                 /\ d.res.val.sys_err = c.i_e + d.res.tail.c1.i_e

\* C9 happens: a cumulative result that stops at the penultimate lambda with
\* statistical error 3, a tail with statistical error 4, a stage result with 5
C9_Witness ==
  /\ PostDone
  /\ \E k \in 1..Len(ret.stages) :
       LET d == ret.stages[k]
       IN  /\ d.status = "ok"
           /\ d.res.tail.used
           /\ d.cum.s_e_sq = 3 * 3 /\ d.res.tail.c1.s_e_sq = 4 * 4
           /\ d.res.val.err_sq = 5 * 5

\* C10: in _post_tasks, when the last lambda of the cumulative result is
\* neither the final nor the penultimate lambda of the schedule, the call
\* fails and there is no free-energy result for the stage, nor for the job.
C10_MismatchFails ==
  PostDone =>
    \A k \in 1..Len(ret.stages) :
      LET d == ret.stages[k]
          xx == LambdaOut(fs[d.path])
          n == Len(xx)
      IN  (Integrated(d) /\ d.cum.new_lambda_last \notin {xx[n], xx[n - 1]}) =>
            /\ d.status = "RuntimeError"
            /\ d.res = NoResult
            /\ k = Len(ret.stages)
            /\ ret.status = "RuntimeError"
            /\ ret.val = NoResult

\* C10 happens: a cumulative result that stops two points before the end
C10_Witness ==
  /\ PostDone
  /\ \E k \in 1..Len(ret.stages) :
       LET d == ret.stages[k]
           xx == LambdaOut(fs[d.path])
       IN  /\ Integrated(d)
           /\ Len(xx) >= 3
           /\ d.cum.new_lambda_last = xx[Len(xx) - 2]
           /\ d.status = "RuntimeError"

----------------------------------------------------------------------------
(* Properties of refine_task as a step *)

\* a step that is a call of refine_task
RefineCall == ret.op = "none" /\ ret'.op = "refine_task"

\* C11: refine_task on a source stage without hti.out fails before doing
\* anything else: no directory, in.json or task of the target is created, and
\* the source stage is unchanged.
C11_MissingResultFailsFirst ==
  [][(RefineCall /\ ~fs[ret'.from_task].hti_out.exists) =>
       /\ ret'.status = "RuntimeError"
       /\ ret'.out = NoResult
       /\ fs' = fs
       /\ cwd' = cwd]_vars

\* C11 happens: refine_task has failed on a stage whose tasks all have output
\* but which has no hti.out, and there is no target stage
C11_Witness ==
  /\ ret.op = "refine_task" /\ ret.status = "RuntimeError"
  /\ ~ret.print_ref
  /\ Len(fs[ret.from_task].tasks) >= 2
  /\ StageComplete(fs, ret.from_task)
  /\ ~fs[ret.from_task].hti_out.exists
  /\ ~fs[<<"refined">>].exists

\* C12: refine_task with a target different from the source never modifies
\* the source stage: its in.json, hti.out and every file of every task are the
\* same after the call, whether it succeeds, fails or only prints the counts.
C12_SourceUntouched ==
  [][(RefineCall /\ ret'.from_task # <<"refined">>) =>
       fs'[ret'.from_task] = fs[ret'.from_task]]_vars

\* C12 happens: refine_task has built a target stage from a source that still
\* has its output
C12_Witness ==
  /\ RefineDone
  /\ ret.from_task # <<"refined">>
  /\ fs[<<"refined">>].exists
  /\ fs[ret.from_task].hti_out.exists
  /\ \A i \in 1..Len(fs[ret.from_task].tasks) :
       fs[ret.from_task].tasks[i].log.exists /\ fs[ret.from_task].tasks[i].data.exists

----------------------------------------------------------------------------
(* Properties of the reweighting estimator, _post_tasks_mbar *)

\* post_tasks has returned from a job all of whose stages have all their output
AllStagesComplete ==
  \A k \in 1..Len(StagesOf(ret.iter_name, ret.switch)) :
    LET p == StagesOf(ret.iter_name, ret.switch)[k].path
    IN  isdir(fs, p) /\ StageComplete(fs, p)

\* C13 (as claimed): _post_tasks_mbar on a stage whose tasks all have output
\* returns a stage result with systematic error 0, so that post_tasks with
\* method 'mbar' returns a result whose combined systematic error is 0.
C13_MbarSystematicZero ==
  (PostDone /\ ret.method = "mbar" /\ AllStagesComplete) =>
    /\ ret.status = "ok"
    /\ \A k \in 1..Len(ret.stages) :
         ret.stages[k].status = "ok" /\ ret.stages[k].res.val.sys_err = 0
    /\ ret.val.sys_err = 0

\* C14 (as claimed): the reweighting estimator handles every (protocol, stage
\* kind) pair the quadrature estimator handles: a stage of such a pair whose
\* tasks all have output is not rejected.
C14_MbarHandlesEveryKind ==
  (PostDone /\ ret.method = "mbar") =>
    \A k \in 1..Len(ret.stages) :
      LET d == ret.stages[k]
      IN  (isdir(fs, d.path) /\ StageComplete(fs, d.path)
           /\ KindKnown(ret.switch, d.step)) =>
            d.status \notin {"NameError", "RuntimeError"}

----------------------------------------------------------------------------
(* Properties of make_tasks on an incomplete configuration *)

\* make_tasks has returned from a protocol one of whose stages has no
\* schedule key in the configuration it was given
KeyAbsent ==
  /\ MakeDone
  /\ \E k \in 1..Len(PlanOf(ret.switch)) :
       PlanOf(ret.switch)[k].key \notin DOMAIN ret.config

\* C15 (as claimed): make_tasks with a stage's schedule key absent fails, and
\* it fails before any task of any stage is created and with the working
\* directory as it was at the call.
C15_AbsentKeyFailsClean ==
  KeyAbsent =>
    /\ ret.status # "ok"
    /\ \A p \in Paths : isdir(fs, p) => Len(fs[p].tasks) = 0
    /\ cwd = "."

----------------------------------------------------------------------------
(* Properties of post-processing a stage with missing output *)

PostCall == ret.op = "none" /\ ret'.op = "post_tasks"
StageCall == ret.op = "none" /\ ret'.op = "_post_tasks"

\* the position of stage directory p among the stages of its job
StagePos(p) ==
  IF Len(p) = 1 THEN 1
  ELSE IF p[2] \in {"00.deep_on", "00.lj_on"} THEN 1
  ELSE IF p[2] \in {"01.spring_off", "01.deep_on"} THEN 2
  ELSE 3

\* stage directory p, with tasks, lacks the log.lammps of one of them
Incomplete(f, p) ==
  /\ isdir(f, p) /\ Len(f[p].tasks) > 0
  /\ \E i \in 1..Len(f[p].tasks) : ~f[p].tasks[i].log.exists

\* C16: post_tasks, by either method, on a job one of whose stages lacks a
\* task's log.lammps fails in the same step: it returns no result, that stage
\* gets no hti.out, no stage after it is processed or touched and nothing is
\* combined; _post_tasks called on such a stage fails likewise.
C16_MissingOutputFails ==
  [][/\ PostCall =>
          \A p \in Paths :
            (p[1] = ret'.iter_name /\ Incomplete(fs, p)) =>
              /\ ret'.status # "ok"
              /\ ret'.val = NoResult
              /\ fs'[p].hti_out = fs[p].hti_out /\ ~fs'[p].hti_out.exists
              /\ \A k \in 1..Len(ret'.stages) :
                   /\ StagePos(ret'.stages[k].path) <= StagePos(p)
                   /\ ret'.stages[k].path = p => ret'.stages[k].res = NoResult
              /\ \A q \in Paths :
                   (q[1] = p[1] /\ StagePos(q) > StagePos(p)) => fs'[q] = fs[q]
     /\ (StageCall /\ Incomplete(fs, ret'.path)) =>
          /\ ret'.status # "ok"
          /\ ret'.res = NoResult
          /\ fs'[ret'.path].hti_out = fs[ret'.path].hti_out
          /\ ~fs'[ret'.path].hti_out.exists]_vars

\* C16 happens: quadrature on a three-step job whose first stage has all its
\* output, whose second has the first task's only and whose third has all
C16_Witness ==
  /\ PostDone /\ ret.method = "inte" /\ ret.switch = "three-step"
  /\ ret.status = "FileNotFoundError" /\ ret.val = NoResult
  /\ Len(ret.stages) = 2 /\ ret.stages[1].status = "ok"
  /\ fs[<<"job", "00.lj_on">>].hti_out.exists
  /\ fs[<<"job", "01.deep_on">>].tasks[1].log.exists
  /\ Incomplete(fs, <<"job", "01.deep_on">>)
  /\ ~fs[<<"job", "01.deep_on">>].hti_out.exists
  /\ StageComplete(fs, <<"job", "02.spring_off">>)
  /\ \A i \in 1..Len(fs[<<"job", "02.spring_off">>].tasks) :
       ~fs[<<"job", "02.spring_off">>].tasks[i].data.exists

----------------------------------------------------------------------------
(* Properties of the read-out of hti.py compute *)

ReadOutDone == ret.op = "compute"

\* C17: the Helmholtz read-out is e0 + de with the statistical and systematic
\* errors of the integration unchanged; the Gibbs read-out is e0 + de + pv,
\* its squared statistical error is the squared statistical error of the
\* integration plus the squared error of pv, its systematic error is that of
\* the integration.
C17_ReadOut ==
  [][(ret.op = "post_tasks" /\ ret'.op = "compute") =>
       LET de == ret.val
           pv == ret.thermo.pv
           pv_err_sq == ret.thermo.pv_err_sq
           e0 == ret'.e0
       IN  /\ ret'.type = "helmholtz" =>
                /\ ret'.out.value = e0 + de.diff_e
                /\ ret'.out.err_sq = de.err_sq
                /\ ret'.out.sys_err = de.sys_err
           /\ ret'.type = "gibbs" =>
                /\ ret'.out.value = e0 + de.diff_e + pv
                /\ ret'.out.err_sq = de.err_sq + pv_err_sq
                /\ ret'.out.sys_err = de.sys_err]_vars

\* C17 happens: a Gibbs read-out of a two-step job with a pv term and a pv
\* error that change the value and the statistical error
C17_Witness ==
  /\ ReadOutDone /\ ret.type = "gibbs"
  /\ isdir(fs, <<"job", "01.spring_off">>)
  /\ fs[<<"job", "01.spring_off">>].hti_out.exists
  /\ ret.thermo.pv # 0 /\ ret.thermo.pv_err_sq # 0
  /\ ret.de.err_sq # 0 /\ ret.de.sys_err # 0
  /\ ret.out.err_sq # ret.de.err_sq

----------------------------------------------------------------------------
(* Properties of post_tasks against the layout make_tasks created *)

\* the stage directories of job iter_name that have tasks
StageDirs(f, iter_name) ==
  { p \in Paths : p[1] = iter_name /\ isdir(f, p) /\ Len(f[p].tasks) > 0 }

\* the stages of job iter_name created with protocol P, in their order
StagesMade(iter_name, P) ==
  IF iter_name = "job" THEN PlanOf(P)
  ELSE << [path |-> <<iter_name>>, step |-> "both", key |-> "lambda"] >>

\* C18: post_tasks on a job takes the protocol the job's stages were created
\* with; the stages it processes are the first stages of that protocol, in
\* their order and each with the kind recorded at its creation, and all of
\* them, and no other directory, when it succeeds.  Each stage whose logs
\* were all read gets an integrand table with one row per numbered task,
\* row i at the lambda of task i, whether or not task.endpnt is there.
C18_StagesAndRowsInOrder ==
  [][PostCall =>
       \A P \in Switches :
         (\A p \in StageDirs(fs, ret'.iter_name) : fs[p].in_json.content["switch"] = P) =>
           LET plan == StagesMade(ret'.iter_name, P)
               done == ret'.stages
           IN  /\ ret'.switch = P
               /\ Len(done) <= Len(plan)
               /\ ret'.status = "ok" =>
                    /\ Len(done) = Len(plan)
                    /\ { done[k].path : k \in 1..Len(done) } = StageDirs(fs, ret'.iter_name)
               /\ \A k \in 1..Len(done) :
                    /\ done[k].path = plan[k].path
                    /\ done[k].step = plan[k].step
                    /\ done[k].step = fs[done[k].path].in_json.content["step"]
                    /\ (ret'.method = "inte" /\ StageComplete(fs, done[k].path)) =>
                         LET tasks == fs[done[k].path].tasks
                             rows == fs'[done[k].path].hti_out.content
                         IN  /\ fs'[done[k].path].hti_out.exists
                             /\ Len(rows) = Len(tasks)
                             /\ \A i \in 1..Len(tasks) :
                                  rows[i].lmbda = tasks[i].lambda_out]_vars

\* C18 happens: quadrature succeeds on a two-step job whose last stage has a
\* task.endpnt with its log: both stages were processed in order, the table
\* of the last stage has one row per numbered task and the end point gave
\* only the thermo_info
C18_Witness ==
  /\ PostDone /\ ret.method = "inte" /\ ret.status = "ok" /\ ret.switch = "two-step"
  /\ Len(ret.stages) = 2
  /\ ret.stages[1].step = "deep_on" /\ ret.stages[2].step = "spring_off"
  /\ fs[<<"job", "01.spring_off">>].endpnt.exists
  /\ fs[<<"job", "01.spring_off">>].endpnt.log.exists
  /\ Len(fs[<<"job", "01.spring_off">>].hti_out.content)
       = Len(fs[<<"job", "01.spring_off">>].tasks)
  /\ ret.thermo.pv = EndPntObs.pv

----------------------------------------------------------------------------
(* Properties of the refined stage *)

\* C19: the stage refine_task creates records protocol 'one-step' and kind
\* 'both' in its in.json and holds the refined schedule under key 'lambda',
\* with one task per value, whatever the source stage records; post_tasks on
\* the refined stage takes it as a one-step job of one stage of kind both, and
\* the integrand table it writes is Ed / lambda - Es / (1 - lambda).
C19_RefinedIsOneStepBoth ==
  /\ RefineDone =>
       LET refined == fs[<<"refined">>]
       IN  /\ refined.in_json.content["switch"] = "one-step"
           /\ refined.in_json.content["step"] = "both"
           /\ refined.in_json.content["lambda"] = ret.out.refined_t
           /\ Len(refined.tasks) = Len(ret.out.refined_t)
  /\ (PostDone /\ ret.iter_name = "refined") =>
       /\ ret.switch = "one-step"
       /\ Len(ret.stages) = 1
       /\ ret.stages[1].path = <<"refined">> /\ ret.stages[1].step = "both"
       /\ fs[<<"refined">>].hti_out.exists =>
            \A i \in 1..Len(fs[<<"refined">>].tasks) :
              LET t == fs[<<"refined">>].tasks[i]
                  o == t.log.content
              IN  fs[<<"refined">>].hti_out.content[i].dU =
                    RatSub(RatDiv(Int2Rat(o.ed), t.lambda_out),
                           RatDiv(Int2Rat(o.es), RatSub(One, t.lambda_out)))

\* C19 happens: quadrature has succeeded on a stage refined from the deep_on
\* stage of a two-step job, whose in.json records two-step and deep_on
C19_Witness ==
  /\ PostDone /\ ret.iter_name = "refined" /\ ret.method = "inte" /\ ret.status = "ok"
  /\ fs[<<"refined">>].hti_out.exists
  /\ fs[<<"refined">>].in_json.content["orig_task"] = <<"job", "00.deep_on">>
  /\ fs[<<"job", "00.deep_on">>].in_json.content["switch"] = "two-step"
  /\ fs[<<"job", "00.deep_on">>].in_json.content["step"] = "deep_on"
  /\ fs[<<"refined">>].in_json.content["step"] = "both"
  /\ Len(fs[<<"refined">>].tasks) > Len(fs[<<"job", "00.deep_on">>].tasks)

----------------------------------------------------------------------------
(* Properties of the order of post-processing and refinement *)

\* the step leaves an hti.out in directory p that was not there before it
WritesTable(p) ==
  /\ isdir(fs', p) /\ fs'[p].hti_out.exists
  /\ ~isdir(fs, p) \/ fs'[p].hti_out # fs[p].hti_out

\* C20: an hti.out is written only by a quadrature pass, and only in a stage
\* every task of which had its output, which the pass has then read (its data
\* file is there); refine_task returns normally only from a source stage that
\* has an hti.out, and the stage it creates has none.  So a reweighting pass
\* never makes a stage refinable, and a refined stage is not refinable before
\* a quadrature pass on it.
C20_RefineAfterQuadrature ==
  [][/\ \A p \in Paths :
          WritesTable(p) =>
            /\ ret.op = "none"
            /\ \/ ret'.op = "post_tasks" /\ ret'.method = "inte"
               \/ ret'.op = "_post_tasks"
            /\ isdir(fs, p) /\ ~Incomplete(fs, p)
            /\ \A i \in 1..Len(fs'[p].tasks) :
                 fs'[p].tasks[i].log.exists /\ fs'[p].tasks[i].data.exists
     /\ (RefineCall /\ ret'.status = "ok") =>
          /\ isdir(fs, ret'.from_task)
          /\ fs[ret'.from_task].hti_out.exists
          /\ ret'.print_ref \/ ~fs'[<<"refined">>].hti_out.exists]_vars

\* C20 happens: refine_task was tried on a refined stage all of whose tasks
\* have their output but which no quadrature pass has processed, and failed
C20_Witness ==
  /\ ret.op = "refine_task" /\ ret.from_task = <<"refined">>
  /\ ret.status = "RuntimeError"
  /\ isdir(fs, <<"refined">>)
  /\ "orig_task" \in DOMAIN fs[<<"refined">>].in_json.content
  /\ StageComplete(fs, <<"refined">>)
  /\ ~fs[<<"refined">>].hti_out.exists

----------------------------------------------------------------------------
(* Properties of get_thermo *)

\* the log has the thermo header, and no end marker after it
StillRunning(fc) ==
  /\ \E i \in 1..Len(fc) : fc[i] = HeaderLine
  /\ \A i \in 1..Len(fc) : fc[i] # EndLine

\* C21 (as claimed): get_thermo returns the rows strictly between the first
\* header line and the first 'Loop time of' line; for a log with the header
\* and no end marker it returns no row; and no series an integrand is
\* averaged from comes out of such a log.
C21_OnlyCompleteOutput ==
  /\ (ret.op = "get_thermo" /\ ret.status = "ok") =>
       /\ \A h, e \in 1..Len(ret.fc) :
            ( /\ ret.fc[h] = HeaderLine /\ \A j \in 1..(h - 1) : ret.fc[j] # HeaderLine
              /\ ret.fc[e] = EndLine /\ \A j \in 1..(e - 1) : ret.fc[j] # EndLine
              /\ h < e ) =>
              /\ Len(ret.data) = e - h - 1
              /\ \A k \in 1..(e - h - 1) :
                   ret.fc[h + k] \in RowLines =>
                     ret.data[k] = << IF ret.fc[h + k] = "1" THEN 1 ELSE 2 >>
       /\ StillRunning(ret.fc) => ret.data = <<>>
  /\ (ret.op = "block_avg" /\ ret.status = "ok") => ~StillRunning(ret.fc)

====
